---- MODULE Spec2Model ----
(***************************************************************************)
(* Notes API (FastAPI + SQLAlchemy + python-jose + passlib): users,        *)
(* bearer tokens, notes and their visibility, as a state machine.          *)
(*                                                                         *)
(* Time is counted in clock ticks, TicksPerSecond of them to a second:     *)
(* datetime.utcnow() reads the clock to the tick, and the JWT "exp" claim  *)
(* keeps whole seconds only (timegm of a utctimetuple).                    *)
(***************************************************************************)
EXTENDS Integers, Sequences, FiniteSets, TLC

\* ------------------------------------------------------------ bounds
TicksPerSecond == 2
\* Spec, SpecConc: the clock is read at ticks 0..MaxClock
MaxClock == 1
\* SpecAuth, SpecToken: how many times the clock is advanced
MaxJumps == 3
\* Spec: how many notes are ever created
MaxNotes == 1
\* SpecList: how many notes are ever created
MaxListed == 2
\* SpecConc, SpecRace: requests in flight at once
MaxProcs == 2
\* SpecRace: the clock is read at ticks 0..MaxRaceClock
MaxRaceClock == 2

\* ------------------------------------------------------------ inputs
Usernames == {"al", "Al"}
Emails == {"a@x", "b@x"}
RegPasswords == {"pw"}
Passwords == {"pw", "no"}
\* two passwords of 73 bytes that share their first 72
LongPasswords == {"L72+a", "L72+b"}
Salts == {"s1"}
Titles == {"t1", "t2"}
Contents == {"c1"}
\* Spec: the accounts the notes are exercised with
Accounts == {<<"al", "a@x">>, <<"Al", "b@x">>}
Procs == 1..MaxProcs
NoteIds == 1..MaxNotes
\* a field left out of a NoteUpdate
None == ""

\* str.lower() on the usernames above
Lower(s) == IF s = "Al" THEN "al" ELSE s

\* ------------------------------------------------------------ constants
ACCESS_TOKEN_EXPIRE_MINUTES == 30
DEFAULT_EXPIRE_MINUTES == 15
SECRET_KEY == "secret"
\* a secret that is not the service's
OTHER_KEY == "other"

\* ------------------------------------------------------------ state
VARIABLES
    users,      \* rows of table users: [id, username, email, hashed_password]
    notes,      \* rows of table notes
    note_seq,   \* how many rows the notes table has been given
    now,        \* the clock, in ticks
    jumps,      \* how many times the clock was advanced (SpecAuth, SpecToken)
    held,       \* the bearer token each client holds, with the user (username,
                \* id) it was issued to and when: [user, uid, tok, iat, delta]
    pending,    \* SpecConc: the request each worker is in the middle of
    resp,       \* the outcome of the last request: what its handler returned or
                \* raised (status, detail), or the boundary's answer to an
                \* exception the handler let through
    given,      \* history: the password each account was registered with
    shared,     \* history: the ids of the notes that have been public at some time
    deleted     \* history: the ids of the notes delete_note has removed

vars ==
    <<users, notes, note_seq, now, jumps, held, pending, resp, given, shared, deleted>>

\* ------------------------------------------------------------ time
\* timedelta(minutes=m), in ticks
timedelta_minutes(m) == m * 60 * TicksPerSecond

\* timegm(dt.utctimetuple()): whole seconds, the fraction dropped
timegm(dt) == dt \div TicksPerSecond

\* ------------------------------------------------------------ passwords
\* what bcrypt reads of a secret: its first 72 bytes (passlib's bcrypt handler
\* has truncate_size = 72 and, truncate_error being off, cuts silently)
bcrypt_input(secret) == IF secret \in LongPasswords THEN "L72" ELSE secret

\* pwd_context.hash: bcrypt of the password under a fresh salt
get_password_hash(password, salt) ==
    [salt |-> salt, digest |-> <<salt, bcrypt_input(password)>>]

\* pwd_context.verify: recompute under the blob's salt and compare
verify_password(plain_password, hashed_password) ==
    hashed_password.digest = <<hashed_password.salt, bcrypt_input(plain_password)>>

\* ------------------------------------------------------------ tokens
\* HMAC-SHA256 of the payload under key
Sign(sub, exp, key) == <<sub, exp, key>>

\* jwt.encode: a datetime "exp" becomes whole seconds, then payload + signature
jwt_encode(sub, expire, key) ==
    [sub |-> sub, exp |-> timegm(expire), sig |-> Sign(sub, timegm(expire), key)]

\* no Authorization header
NoCred == [sub |-> "", exp |-> 0, sig |-> <<>>]

\* expires_delta = None (no timedelta has this many ticks here)
NoDelta == 0 - 1000000

\* expires_delta ignored: the built-in default every time
create_access_token_default(sub, expires_delta, utcnow) ==
    jwt_encode(sub, utcnow + timedelta_minutes(DEFAULT_EXPIRE_MINUTES), SECRET_KEY)

create_access_token(sub, expires_delta, utcnow) ==
    LET expire == IF expires_delta # NoDelta /\ expires_delta # 0
                  THEN utcnow + expires_delta
                  ELSE utcnow + timedelta_minutes(DEFAULT_EXPIRE_MINUTES)
    IN  jwt_encode(sub, expire, SECRET_KEY)

\* jwt.decode's check of "exp" (python-jose, _validate_exp): the token is
\* expired when exp < timegm(utcnow), both in whole seconds
jwt_expired(token, utcnow) == token.exp < timegm(utcnow)

\* the signature not verified
jwt_decode_unverified(token, key, utcnow) ==
    IF jwt_expired(token, utcnow) THEN "ExpiredSignatureError" ELSE "ok"

\* jwt.decode: "ok", or the JWTError it raises
jwt_decode(token, key, utcnow) ==
    IF token.sig # Sign(token.sub, token.exp, key) THEN "JWTError"
    ELSE IF jwt_expired(token, utcnow) THEN "ExpiredSignatureError"
    ELSE "ok"

\* ------------------------------------------------------------ responses
\* what a request came to: the handler's status, detail and body (out, list),
\* with the request's credentials, note id and username (req), and the rows
\* the handler loaded before it changed them (old)
Resp(op, status, cred, nid, detail, out) ==
    [op |-> op, status |-> status, cred |-> cred, nid |-> nid,
     detail |-> detail, error |-> "", out |-> out, list |-> <<>>, req |-> "",
     old |-> {}]

NoResp == Resp("none", 0, NoCred, 0, "", {})

\* global_exception_handler: 500, with str(exc) in the body
InternalError(op, exc) ==
    [Resp(op, 500, NoCred, 0, "Internal server error", {}) EXCEPT !.error = exc]

\* get_db's except branch: rollback, 503
DbFailed(op) == Resp(op, 503, NoCred, 0, "Database connection failed", {})

UserResponse(usr) == [id |-> usr.id, username |-> usr.username, email |-> usr.email]

\* ------------------------------------------------------------ users table
\* db.query(User).filter(User.username == username).first()
UserByName(username) == {usr \in users : usr.username = username}

\* the lookup made case-insensitively
UsernameTaken_ci(username) ==
    \E usr \in users : Lower(usr.username) = Lower(username)

UsernameTaken(username) == UserByName(username) # {}

\* unique=True left off users.username
UniqueViolation_email_only(username, email) ==
    \E usr \in users : usr.email = email

\* unique=True on users.username and users.email
UniqueViolation(username, email) ==
    \E usr \in users : usr.username = username \/ usr.email = email

NewUser(username, email, hashed_password) ==
    [id |-> Cardinality(users) + 1, username |-> username, email |-> email,
     hashed_password |-> hashed_password]

\* ------------------------------------------------------------ get_current_user
\* an unknown subject answered as a missing header is
AuthStatus_unknown_forbidden(cred) ==
    IF cred = NoCred THEN 403
    ELSE IF jwt_decode(cred, SECRET_KEY, now) # "ok" THEN 401
    ELSE IF UserByName(cred.sub) = {} THEN 403
    ELSE 0

\* 0 when the credentials resolve to a user, else the status of the rejection
AuthStatus(cred) ==
    IF cred = NoCred THEN 403
    ELSE IF jwt_decode(cred, SECRET_KEY, now) # "ok" THEN 401
    ELSE IF UserByName(cred.sub) = {} THEN 401
    ELSE 0

\* the subject looked up without regard to letter case
get_current_user_ci(cred) ==
    CHOOSE usr \in users :
        /\ Lower(usr.username) = Lower(cred.sub)
        /\ \A o \in users : Lower(o.username) = Lower(cred.sub) => o.id <= usr.id

\* the newest user, whoever the token names
get_current_user_newest(cred) ==
    CHOOSE usr \in users : \A o \in users : o.id <= usr.id

get_current_user(cred) == CHOOSE usr \in users : usr.username = cred.sub

AuthDetail(status) ==
    IF status = 403 THEN "Not authenticated" ELSE "Could not validate credentials"

Unauthenticated(op, cred, nid) ==
    Resp(op, AuthStatus(cred), cred, nid, AuthDetail(AuthStatus(cred)), {})

\* a held token with its subject altered and the signature left as it was
Tamper(tok) == [tok EXCEPT !.sub = IF tok.sub = "al" THEN "Al" ELSE "al"]

\* a held token with its expiry moved a minute on and the signature left as it was
TamperExp(tok) == [tok EXCEPT !.exp = @ + 60]

\* a token's payload signed again with another secret
Forge(tok) == [tok EXCEPT !.sig = Sign(tok.sub, tok.exp, OTHER_KEY)]

HeldTokens == {h.tok : h \in held}

\* what a client that keeps to the protocol presents
Creds == HeldTokens \cup {NoCred}

\* tokens the service never issued
ForgedCreds ==
    {Tamper(t) : t \in HeldTokens} \cup {TamperExp(t) : t \in HeldTokens}
                                   \cup {Forge(t) : t \in HeldTokens}

\* a token the service signed for a user whose row is no longer in the table
\* (removed directly in the database, or the database made anew)
StaleToken ==
    create_access_token("zed", timedelta_minutes(ACCESS_TOKEN_EXPIRE_MINUTES), 0)

StaleCreds == {StaleToken}

\* a worker with no request in hand
IdleReq ==
    [op |-> "idle", username |-> "", email |-> "", password |-> "",
     hashed_password |-> <<>>, cred |-> NoCred, note_id |-> 0, loaded |-> {},
     assigned |-> {}]

\* ------------------------------------------------------------ Init
Init ==
    /\ users = {}
    /\ notes = {}
    /\ note_seq = 0
    /\ now = 0
    /\ jumps = 0
    /\ held = {}
    /\ pending = [p \in Procs |-> IdleReq]
    /\ resp = NoResp
    /\ given = {}
    /\ shared = {}
    /\ deleted = {}

\* ------------------------------------------------------------ auth handlers
\* an IntegrityError out of db.commit(): the global handler's 500, or get_db's 503
IntegrityErrorResponses(op, req) ==
    {[InternalError(op, "IntegrityError") EXCEPT !.req = req],
     [DbFailed(op) EXCEPT !.req = req]}

UsernameRegistered(username) ==
    [Resp("register", 400, NoCred, 0, "Username already registered", {})
        EXCEPT !.req = username]

Registered(db_user) ==
    [Resp("register", 200, NoCred, 0, "", {UserResponse(db_user)})
        EXCEPT !.req = db_user.username]

register(username, email, password, salt) ==
    /\ IF UsernameTaken(username)
       THEN /\ resp' = UsernameRegistered(username)
            /\ UNCHANGED <<users, given>>
       ELSE IF UniqueViolation(username, email)
       THEN /\ resp' \in IntegrityErrorResponses("register", username)
            /\ UNCHANGED <<users, given>>
       ELSE LET db_user == NewUser(username, email, get_password_hash(password, salt))
            IN  /\ users' = users \cup {db_user}
                /\ given' = given \cup {[username |-> username, password |-> password]}
                /\ resp' = Registered(db_user)
    /\ UNCHANGED <<notes, note_seq, now, jumps, held, pending, shared, deleted>>

\* an unknown username answered with a 404 of its own
LoginFailed_tells(username) ==
    IF UserByName(username) = {}
    THEN [Resp("login", 404, NoCred, 0, "User not found", {}) EXCEPT !.req = username]
    ELSE [Resp("login", 401, NoCred, 0, "Incorrect username or password", {})
             EXCEPT !.req = username]

\* login's HTTPException, the same for "not user" and for a failed verify_password
LoginFailed(username) ==
    [Resp("login", 401, NoCred, 0, "Incorrect username or password", {})
        EXCEPT !.req = username]

login(username, password) ==
    /\ IF \/ UserByName(username) = {}
          \/ \E usr \in UserByName(username) :
                ~verify_password(password, usr.hashed_password)
       THEN /\ resp' = LoginFailed(username)
            /\ UNCHANGED held
       ELSE LET user == CHOOSE usr \in users : usr.username = username
                access_token == create_access_token(user.username,
                                    timedelta_minutes(ACCESS_TOKEN_EXPIRE_MINUTES), now)
            IN  /\ held' = {h \in held : h.user # username} \cup
                           {[user |-> username, uid |-> user.id, tok |-> access_token,
                             iat |-> now,
                             delta |-> timedelta_minutes(ACCESS_TOKEN_EXPIRE_MINUTES)]}
                /\ resp' = [Resp("login", 200, access_token, 0, "bearer", {})
                                EXCEPT !.req = username]
    /\ UNCHANGED <<users, notes, note_seq, now, jumps, pending, given, shared, deleted>>

get_current_user_info(cred) ==
    /\ resp' = IF AuthStatus(cred) # 0 THEN Unauthenticated("me", cred, 0)
               ELSE Resp("me", 200, cred, 0, "", {UserResponse(get_current_user(cred))})
    /\ UNCHANGED <<users, notes, note_seq, now, jumps, held, pending, given, shared, deleted>>

\* ------------------------------------------------------------ notes table
\* db.query(Note).filter(Note.id == note_id).first()
NoteById(note_id) == {n \in notes : n.id = note_id}

\* the owner filter left out of the query
NoteByIdAndOwner_any(note_id, owner_id) == {n \in notes : n.id = note_id}

\* db.query(Note).filter(Note.id == note_id, Note.owner_id == owner_id).first()
NoteByIdAndOwner(note_id, owner_id) ==
    {n \in notes : n.id = note_id /\ n.owner_id = owner_id}

\* db.query(Note, User.username).join(User, Note.owner_id == User.id)
NoteJoinUser ==
    {[note |-> p[1], owner_username |-> p[2].username] :
        p \in {q \in notes \X users : q[1].owner_id = q[2].id}}

\* the is_public filter left out of the query
SharedNoteRows_any(note_id) == {r \in NoteJoinUser : r.note.id = note_id}

\* ... .filter(Note.id == note_id, Note.is_public == True).first()
SharedNoteRows(note_id) ==
    {r \in NoteJoinUser : r.note.id = note_id /\ r.note.is_public = TRUE}

\* the is_public filter left out of the listing
PublicNoteRows_all == NoteJoinUser

\* ... .filter(Note.is_public == True)
PublicNoteRows == {r \in NoteJoinUser : r.note.is_public = TRUE}

\* the test with "and not note.is_public" left out
NotAuthorizedToView_owner_only(note, current_user) == note.owner_id # current_user.id

\* get_note's test for its 403
NotAuthorizedToView(note, current_user) ==
    note.owner_id # current_user.id /\ ~note.is_public

PublicNoteResponse(row) ==
    [id |-> row.note.id, title |-> row.note.title, content |-> row.note.content,
     created_at |-> row.note.created_at, updated_at |-> row.note.updated_at,
     is_public |-> row.note.is_public, owner_id |-> row.note.owner_id,
     owner_username |-> row.owner_username]

\* .order_by(Note.updated_at.desc()).all(): every order the database may return
RECURSIVE OrderedDesc(_)
OrderedDesc(rows) ==
    IF rows = {} THEN {<<>>}
    ELSE UNION {{<<r>> \o rest : rest \in OrderedDesc(rows \ {r})} :
                 r \in {x \in rows :
                          \A y \in rows : y.note.updated_at <= x.note.updated_at}}

\* ------------------------------------------------------------ note handlers
\* the column default made True
Note_is_public_default_true == TRUE

\* Column(Boolean, default=False): create_note gives no is_public
Note_is_public_default == FALSE

\* the row left alone when the flag already has the value asked for
Shared_unless_same(note, is_public, utcnow) ==
    IF note.is_public = is_public THEN note
    ELSE [note EXCEPT !.is_public = is_public, !.updated_at = utcnow]

\* a note once public stays public
Shared_sticky(note, is_public, utcnow) ==
    [note EXCEPT !.is_public = note.is_public \/ is_public, !.updated_at = utcnow]

\* share_note's assignments to the row
Shared(note, is_public, utcnow) ==
    [note EXCEPT !.is_public = is_public, !.updated_at = utcnow]

\* updated_at left as it was
Updated_keep_time(note, title, content, utcnow) ==
    [note EXCEPT !.title = IF title # None THEN title ELSE @,
                 !.content = IF content # None THEN content ELSE @]

\* update_note's assignments to the row: the fields given, and updated_at
Updated(note, title, content, utcnow) ==
    [note EXCEPT !.title = IF title # None THEN title ELSE @,
                 !.content = IF content # None THEN content ELSE @,
                 !.updated_at = utcnow]

\* the id the database gives a new row: PostgreSQL's sequence never goes back
NextSerial == note_seq + 1

\* SQLite's INTEGER PRIMARY KEY without AUTOINCREMENT: the largest id in the
\* table plus one, so the id of a deleted last row is given out again
NextRowid ==
    IF notes = {} THEN 1
    ELSE 1 + CHOOSE i \in {n.id : n \in notes} : \A n \in notes : n.id <= i

\* new_id: the id the database gives the row at db.commit()
create_note(cred, title, content, new_id) ==
    /\ IF AuthStatus(cred) # 0
       THEN /\ resp' = Unauthenticated("create_note", cred, 0)
            /\ UNCHANGED <<notes, note_seq>>
       ELSE LET db_note == [id |-> new_id, title |-> title, content |-> content,
                            owner_id |-> get_current_user(cred).id,
                            created_at |-> now, updated_at |-> now,
                            is_public |-> Note_is_public_default]
            IN  /\ notes' = notes \cup {db_note}
                /\ note_seq' = note_seq + 1
                /\ resp' = Resp("create_note", 200, cred, db_note.id, "", {db_note})
    /\ UNCHANGED <<users, now, jumps, held, pending, given, shared, deleted>>

get_user_notes(cred) ==
    /\ resp' = IF AuthStatus(cred) # 0 THEN Unauthenticated("get_user_notes", cred, 0)
               ELSE Resp("get_user_notes", 200, cred, 0, "",
                         {n \in notes : n.owner_id = get_current_user(cred).id})
    /\ UNCHANGED <<users, notes, note_seq, now, jumps, held, pending, given, shared, deleted>>

get_note(cred, note_id) ==
    /\ resp' = IF AuthStatus(cred) # 0 THEN Unauthenticated("get_note", cred, note_id)
               ELSE IF NoteById(note_id) = {}
               THEN Resp("get_note", 404, cred, note_id, "Note not found", {})
               ELSE IF \E n \in NoteById(note_id) :
                          NotAuthorizedToView(n, get_current_user(cred))
               THEN Resp("get_note", 403, cred, note_id,
                         "Not authorized to view this note", {})
               ELSE Resp("get_note", 200, cred, note_id, "", NoteById(note_id))
    /\ UNCHANGED <<users, notes, note_seq, now, jumps, held, pending, given, shared, deleted>>

update_note(cred, note_id, title, content) ==
    /\ IF AuthStatus(cred) # 0
       THEN /\ resp' = Unauthenticated("update_note", cred, note_id)
            /\ UNCHANGED notes
       ELSE IF NoteByIdAndOwner(note_id, get_current_user(cred).id) = {}
       THEN /\ resp' = Resp("update_note", 404, cred, note_id, "Note not found", {})
            /\ UNCHANGED notes
       ELSE LET note == CHOOSE n \in NoteByIdAndOwner(note_id, get_current_user(cred).id) : TRUE
                new == Updated(note, title, content, now)
            IN  /\ notes' = (notes \ {note}) \cup {new}
                /\ resp' = [Resp("update_note", 200, cred, note_id, "", {new})
                                EXCEPT !.old = {note}]
    /\ UNCHANGED <<users, note_seq, now, jumps, held, pending, given, shared, deleted>>

delete_note(cred, note_id) ==
    /\ IF AuthStatus(cred) # 0
       THEN /\ resp' = Unauthenticated("delete_note", cred, note_id)
            /\ UNCHANGED <<notes, deleted>>
       ELSE IF NoteByIdAndOwner(note_id, get_current_user(cred).id) = {}
       THEN /\ resp' = Resp("delete_note", 404, cred, note_id, "Note not found", {})
            /\ UNCHANGED <<notes, deleted>>
       ELSE /\ notes' = notes \ NoteByIdAndOwner(note_id, get_current_user(cred).id)
            /\ deleted' = deleted \cup {note_id}
            /\ resp' = Resp("delete_note", 200, cred, note_id,
                            "Note deleted successfully", {})
    /\ UNCHANGED <<users, note_seq, now, jumps, held, pending, given, shared>>

\* the ShareNoteRequest a response answers
ShareNoteRequest(is_public) == IF is_public THEN "true" ELSE "false"

share_note(cred, note_id, is_public) ==
    /\ IF AuthStatus(cred) # 0
       THEN /\ resp' = [Unauthenticated("share_note", cred, note_id)
                            EXCEPT !.req = ShareNoteRequest(is_public)]
            /\ UNCHANGED <<notes, shared>>
       ELSE IF NoteByIdAndOwner(note_id, get_current_user(cred).id) = {}
       THEN /\ resp' = [Resp("share_note", 404, cred, note_id, "Note not found", {})
                            EXCEPT !.req = ShareNoteRequest(is_public)]
            /\ UNCHANGED <<notes, shared>>
       ELSE LET note == CHOOSE n \in NoteByIdAndOwner(note_id, get_current_user(cred).id) : TRUE
                new == Shared(note, is_public, now)
            IN  /\ notes' = (notes \ {note}) \cup {new}
                /\ shared' = IF is_public THEN shared \cup {note_id} ELSE shared
                \* share_url: "/shared/<id>", here the id, or None, here 0
                /\ resp' = [Resp("share_note", 200, cred, note_id, "Note sharing updated",
                                 {[share_url |-> IF is_public THEN new.id ELSE 0,
                                   is_public |-> new.is_public]})
                                EXCEPT !.old = {note},
                                       !.req = ShareNoteRequest(is_public)]
    /\ UNCHANGED <<users, note_seq, now, jumps, held, pending, given, deleted>>

get_public_notes ==
    /\ \E rows \in OrderedDesc(PublicNoteRows) :
          resp' = [Resp("get_public_notes", 200, NoCred, 0, "", {})
                      EXCEPT !.list = [i \in 1..Len(rows) |-> PublicNoteResponse(rows[i])]]
    /\ UNCHANGED <<users, notes, note_seq, now, jumps, held, pending, given, shared, deleted>>

get_shared_note(note_id) ==
    /\ LET found == SharedNoteRows(note_id)
       IN  resp' = IF found = {}
                   THEN Resp("get_shared_note", 404, NoCred, note_id,
                             "Shared note not found", {})
                   ELSE Resp("get_shared_note", 200, NoCred, note_id, "",
                             {PublicNoteResponse(r) : r \in found})
    /\ UNCHANGED <<users, notes, note_seq, now, jumps, held, pending, given, shared, deleted>>

\* ------------------------------------------------------------ the clock
Tick ==
    /\ now < MaxClock
    /\ now' = now + 1
    /\ resp' = NoResp
    /\ UNCHANGED <<users, notes, note_seq, jumps, held, pending, given, shared, deleted>>

\* one tick, a minute, 29 minutes
JumpSizes == {1, timedelta_minutes(1), timedelta_minutes(29)}

Advance(d) ==
    /\ jumps < MaxJumps
    /\ now' = now + d
    /\ jumps' = jumps + 1
    /\ resp' = NoResp
    /\ UNCHANGED <<users, notes, note_seq, held, pending, given, shared, deleted>>

\* ------------------------------------------------------------ Spec
\* the client takes the response; the next request starts after that
Receive ==
    /\ resp # NoResp
    /\ resp' = NoResp
    /\ UNCHANGED <<users, notes, note_seq, now, jumps, held, pending, given, shared, deleted>>

\* a request is served once the response before it has been taken
Idle == resp = NoResp

Next ==
    \/ Idle /\ \E a \in Accounts, pw \in RegPasswords, s \in Salts :
                  register(a[1], a[2], pw, s)
    \/ Idle /\ \E u \in Usernames, pw \in Passwords : login(u, pw)
    \/ Idle /\ \E c \in Creds : get_current_user_info(c)
    \/ Idle /\ \E c \in Creds : get_user_notes(c)
    \/ Idle /\ note_seq < MaxNotes
            /\ \E c \in Creds, t \in Titles, co \in Contents : create_note(c, t, co, NextSerial)
    \/ Idle /\ \E c \in Creds, nid \in NoteIds : get_note(c, nid)
    \/ Idle /\ \E c \in Creds, nid \in NoteIds,
                  t \in Titles \cup {None}, co \in Contents \cup {None} :
                  update_note(c, nid, t, co)
    \/ Idle /\ \E c \in Creds, nid \in NoteIds : delete_note(c, nid)
    \/ Idle /\ \E c \in Creds, nid \in NoteIds, pub \in BOOLEAN : share_note(c, nid, pub)
    \/ Idle /\ get_public_notes
    \/ Idle /\ \E nid \in NoteIds : get_shared_note(nid)
    \/ Receive
    \/ Tick

Spec == Init /\ [][Next]_vars

\* ------------------------------------------------------------ SpecAuth
\* registration, login and token verification over the tokens' lifetime
NextAuth ==
    \/ Idle /\ \E u \in Usernames, e \in Emails, pw \in RegPasswords, s \in Salts :
                  register(u, e, pw, s)
    \/ Idle /\ \E u \in Usernames, pw \in Passwords : login(u, pw)
    \/ Idle /\ \E c \in Creds \cup ForgedCreds : get_current_user_info(c)
    \/ Receive
    \/ \E d \in JumpSizes : Advance(d)

SpecAuth == Init /\ [][NextAuth]_vars

\* ------------------------------------------------------------ SpecForge
\* every endpoint that needs an identity, called with tokens the service never
\* issued and with a token whose user is gone
NextForge ==
    \/ Idle /\ \E a \in Accounts, pw \in RegPasswords, s \in Salts :
                  register(a[1], a[2], pw, s)
    \/ Idle /\ \E u \in Usernames, pw \in RegPasswords : login(u, pw)
    \/ Idle /\ note_seq < MaxNotes
            /\ \E c \in HeldTokens \cup ForgedCreds \cup StaleCreds, co \in Contents :
                  create_note(c, "t1", co, NextSerial)
    \/ Idle /\ \E c \in ForgedCreds \cup StaleCreds : get_current_user_info(c)
    \/ Idle /\ \E c \in ForgedCreds \cup StaleCreds : get_user_notes(c)
    \/ Idle /\ \E c \in ForgedCreds \cup StaleCreds, nid \in NoteIds : get_note(c, nid)
    \/ Idle /\ \E c \in ForgedCreds \cup StaleCreds, nid \in NoteIds, t \in Titles, co \in Contents :
                  update_note(c, nid, t, co)
    \/ Idle /\ \E c \in ForgedCreds \cup StaleCreds, nid \in NoteIds : delete_note(c, nid)
    \/ Idle /\ \E c \in HeldTokens \cup ForgedCreds \cup StaleCreds,
                  nid \in NoteIds, pub \in BOOLEAN : share_note(c, nid, pub)
    \/ Receive
    \/ Tick

SpecForge == Init /\ [][NextForge]_vars

\* ------------------------------------------------------------ SpecList
\* the public listing over several notes of several owners
ListIds == 1..MaxListed

NextList ==
    \/ Idle /\ \E a \in Accounts, pw \in RegPasswords, s \in Salts :
                  register(a[1], a[2], pw, s)
    \* the clients log in before the clock moves: the listing does not depend
    \* on when a token was issued
    \/ Idle /\ now = 0 /\ \E u \in Usernames, pw \in RegPasswords : login(u, pw)
    \/ Idle /\ note_seq < MaxListed
            /\ \E c \in HeldTokens, co \in Contents : create_note(c, "t1", co, NextSerial)
    \/ Idle /\ \E c \in HeldTokens, nid \in ListIds, co \in Contents :
                  update_note(c, nid, None, co)
    \/ Idle /\ \E c \in HeldTokens, nid \in ListIds : delete_note(c, nid)
    \/ Idle /\ \E c \in HeldTokens, nid \in ListIds, pub \in BOOLEAN :
                  share_note(c, nid, pub)
    \/ Idle /\ get_public_notes
    \/ Receive
    \/ Tick

SpecList == Init /\ [][NextList]_vars

\* ------------------------------------------------------------ SpecDelete
\* the service on the SQLite engine database.py falls back to when DATABASE_URL
\* is not set: notes are made, shared, deleted and made again
NextDelete ==
    \/ Idle /\ \E a \in Accounts, pw \in RegPasswords, s \in Salts :
                  register(a[1], a[2], pw, s)
    \/ Idle /\ now = 0 /\ \E u \in Usernames, pw \in RegPasswords : login(u, pw)
    \/ Idle /\ note_seq < MaxListed
            /\ \E c \in HeldTokens, co \in Contents : create_note(c, "t1", co, NextRowid)
    \/ Idle /\ \E c \in HeldTokens : get_user_notes(c)
    \/ Idle /\ \E c \in HeldTokens, nid \in ListIds : get_note(c, nid)
    \/ Idle /\ \E c \in HeldTokens, nid \in ListIds, co \in Contents :
                  update_note(c, nid, None, co)
    \/ Idle /\ \E c \in HeldTokens, nid \in ListIds : delete_note(c, nid)
    \/ Idle /\ \E c \in HeldTokens, nid \in ListIds, pub \in BOOLEAN :
                  share_note(c, nid, pub)
    \/ Idle /\ get_public_notes
    \/ Idle /\ \E nid \in ListIds : get_shared_note(nid)
    \/ Receive

SpecDelete == Init /\ [][NextDelete]_vars

\* ------------------------------------------------------------ SpecLogin
\* registration and login over short and long passwords
NextLogin ==
    \/ Idle /\ \E u \in Usernames, e \in Emails, s \in Salts,
                  pw \in RegPasswords \cup {"L72+a"} : register(u, e, pw, s)
    \/ Idle /\ \E u \in Usernames, pw \in Passwords \cup LongPasswords : login(u, pw)
    \/ Receive

SpecLogin == Init /\ [][NextLogin]_vars

\* ------------------------------------------------------------ SpecToken
\* create_access_token and jwt.decode on their own, over every expires_delta
Deltas == {NoDelta, 0, 0 - timedelta_minutes(1), timedelta_minutes(1),
           timedelta_minutes(ACCESS_TOKEN_EXPIRE_MINUTES)}

issue(sub, expires_delta) ==
    /\ LET encoded_jwt == create_access_token(sub, expires_delta, now)
       IN  /\ held' = {h \in held : h.user # sub} \cup
                      {[user |-> sub, uid |-> 0, tok |-> encoded_jwt, iat |-> now,
                        delta |-> expires_delta]}
           /\ resp' = [Resp("issue", 200, encoded_jwt, 0, "", {}) EXCEPT !.req = sub]
    /\ UNCHANGED <<users, notes, note_seq, now, jumps, pending, given, shared, deleted>>

decode(token) ==
    /\ resp' = LET res == jwt_decode(token, SECRET_KEY, now)
               IN  Resp("decode", IF res = "ok" THEN 200 ELSE 401, token, 0, res, {})
    /\ UNCHANGED <<users, notes, note_seq, now, jumps, held, pending, given, shared, deleted>>

NextToken ==
    \/ Idle /\ \E u \in Usernames, d \in Deltas : issue(u, d)
    \/ Idle /\ \E c \in HeldTokens \cup ForgedCreds : decode(c)
    \/ Receive
    \/ \E d \in JumpSizes : Advance(d)

SpecToken == Init /\ [][NextToken]_vars

\* ------------------------------------------------------------ SpecConc
\* register, one database round trip at a time, on several workers
register_query(p, username, email, password, salt) ==
    /\ pending[p] = IdleReq
    /\ IF UsernameTaken(username)
       THEN /\ resp' = UsernameRegistered(username)
            /\ UNCHANGED pending
       ELSE /\ pending' = [pending EXCEPT ![p] =
                              [IdleReq EXCEPT
                                  !.op = "register", !.username = username,
                                  !.email = email, !.password = password,
                                  !.hashed_password = get_password_hash(password, salt)]]
            /\ UNCHANGED resp
    /\ UNCHANGED <<users, notes, note_seq, now, jumps, held, given, shared, deleted>>

register_commit(p) ==
    /\ pending[p].op = "register"
    /\ IF UniqueViolation(pending[p].username, pending[p].email)
       THEN /\ resp' \in IntegrityErrorResponses("register", pending[p].username)
            /\ UNCHANGED <<users, given>>
       ELSE LET db_user == NewUser(pending[p].username, pending[p].email,
                                   pending[p].hashed_password)
            IN  /\ users' = users \cup {db_user}
                /\ given' = given \cup {[username |-> pending[p].username,
                                          password |-> pending[p].password]}
                /\ resp' = Registered(db_user)
    /\ pending' = [pending EXCEPT ![p] = IdleReq]
    /\ UNCHANGED <<notes, note_seq, now, jumps, held, shared, deleted>>

NextConc ==
    \/ \E p \in Procs, u \in Usernames, e \in Emails, pw \in RegPasswords, s \in Salts :
          register_query(p, u, e, pw, s)
    \/ \E p \in Procs : register_commit(p)

SpecConc == Init /\ [][NextConc]_vars

\* ------------------------------------------------------------ SpecRace
\* update_note and share_note, one database round trip at a time, on several
\* workers: the query and the assignments to the loaded row, then db.commit()
update_note_query(p, cred, note_id, title, content) ==
    /\ pending[p] = IdleReq
    /\ IF AuthStatus(cred) # 0
       THEN /\ resp' = Unauthenticated("update_note", cred, note_id)
            /\ UNCHANGED pending
       ELSE IF NoteByIdAndOwner(note_id, get_current_user(cred).id) = {}
       THEN /\ resp' = Resp("update_note", 404, cred, note_id, "Note not found", {})
            /\ UNCHANGED pending
       ELSE LET note == CHOOSE n \in NoteByIdAndOwner(note_id, get_current_user(cred).id) : TRUE
            IN  /\ pending' = [pending EXCEPT ![p] =
                                  [IdleReq EXCEPT
                                      !.op = "update_note", !.cred = cred,
                                      !.note_id = note_id, !.loaded = {note},
                                      !.assigned = {Updated(note, title, content, now)}]]
                /\ UNCHANGED resp
    /\ UNCHANGED <<users, notes, note_seq, now, jumps, held, given, shared, deleted>>

share_note_query(p, cred, note_id, is_public) ==
    /\ pending[p] = IdleReq
    /\ IF AuthStatus(cred) # 0
       THEN /\ resp' = [Unauthenticated("share_note", cred, note_id)
                            EXCEPT !.req = ShareNoteRequest(is_public)]
            /\ UNCHANGED pending
       ELSE IF NoteByIdAndOwner(note_id, get_current_user(cred).id) = {}
       THEN /\ resp' = [Resp("share_note", 404, cred, note_id, "Note not found", {})
                            EXCEPT !.req = ShareNoteRequest(is_public)]
            /\ UNCHANGED pending
       ELSE LET note == CHOOSE n \in NoteByIdAndOwner(note_id, get_current_user(cred).id) : TRUE
            IN  /\ pending' = [pending EXCEPT ![p] =
                                  [IdleReq EXCEPT
                                      !.op = "share_note", !.cred = cred,
                                      !.note_id = note_id, !.loaded = {note},
                                      !.assigned = {Shared(note, is_public, now)}]]
                /\ UNCHANGED resp
    /\ UNCHANGED <<users, notes, note_seq, now, jumps, held, given, shared, deleted>>

\* the UPDATE the session flushes at db.commit(): the columns whose assigned
\* value differs from the loaded one, written over the row as it is now
Flushed(row, loaded, assigned) ==
    [row EXCEPT
        !.title = IF assigned.title # loaded.title THEN assigned.title ELSE @,
        !.content = IF assigned.content # loaded.content THEN assigned.content ELSE @,
        !.is_public = IF assigned.is_public # loaded.is_public
                      THEN assigned.is_public ELSE @,
        !.updated_at = IF assigned.updated_at # loaded.updated_at
                       THEN assigned.updated_at ELSE @]

note_commit(p) ==
    /\ pending[p].op \in {"update_note", "share_note"}
    /\ LET req == pending[p]
           row == CHOOSE n \in notes : n.id = req.note_id
           loaded == CHOOSE n \in req.loaded : TRUE
           assigned == CHOOSE n \in req.assigned : TRUE
           new == Flushed(row, loaded, assigned)
       IN  /\ notes' = (notes \ {row}) \cup {new}
           /\ shared' = IF new.is_public THEN shared \cup {new.id} ELSE shared
           /\ resp' = [Resp(req.op, 200, req.cred, req.note_id,
                            IF req.op = "share_note" THEN "Note sharing updated" ELSE "",
                            {new})
                          EXCEPT !.old = {row}]
    /\ pending' = [pending EXCEPT ![p] = IdleReq]
    /\ UNCHANGED <<users, note_seq, now, jumps, held, given, deleted>>

\* the clock of SpecRace
TickRace ==
    /\ now < MaxRaceClock
    /\ now' = now + 1
    /\ UNCHANGED <<users, notes, note_seq, jumps, held, pending, resp, given, shared,
                   deleted>>

\* one owner, logged in before the clock moves, and the owner's requests
NextRace ==
    \/ \E pw \in RegPasswords, s \in Salts : register("al", "a@x", pw, s)
    \/ now = 0 /\ \E pw \in RegPasswords : login("al", pw)
    \/ note_seq < MaxNotes
          /\ \E c \in HeldTokens, co \in Contents : create_note(c, "t1", co, NextSerial)
    \/ \E p \in Procs, c \in HeldTokens, nid \in NoteIds, t \in Titles :
          update_note_query(p, c, nid, t, None)
    \/ \E p \in Procs, c \in HeldTokens, nid \in NoteIds, pub \in BOOLEAN :
          share_note_query(p, c, nid, pub)
    \/ \E p \in Procs : note_commit(p)
    \/ TickRace

SpecRace == Init /\ [][NextRace]_vars

\* ============================================================ claims
\* ------------------------------------------------------------ Spec: notes

\* C1: an anonymous read (get_shared_note) of a note id succeeds if and only
\* if a note with that id exists and is public at that moment, and what it
\* returns is that public note: a private note never reaches an anonymous caller.
C1_AnonymousReadIffPublic ==
    resp.op = "get_shared_note" =>
        /\ resp.status \in {200, 404}
        /\ (resp.status = 200) <=> (\E n \in notes : n.id = resp.nid /\ n.is_public)
        /\ (resp.status = 200) <=> (resp.out # {})
        /\ \A r \in resp.out :
              /\ r.is_public
              /\ \E n \in notes :
                    /\ n.id = resp.nid /\ n.id = r.id /\ n.is_public
                    /\ n.title = r.title /\ n.content = r.content

\* an anonymous caller has just been given a public note
C1_Witness ==
    /\ resp.op = "get_shared_note"
    /\ resp.status = 200
    /\ \E r \in resp.out : r.is_public /\ r.id = resp.nid

\* C2: get_note on an existing note by a caller with a valid token succeeds if
\* and only if the caller owns the note or the note is public; the owner's read
\* succeeds whatever the visibility.
C2_GetNoteOwnerOrPublic ==
    \A h \in held, n \in notes, u \in users :
        (resp.op = "get_note" /\ resp.cred = h.tok /\ resp.nid = n.id
            /\ u.username = h.user) =>
            /\ (resp.status = 200) <=> (n.owner_id = u.id \/ n.is_public)
            /\ (resp.status = 200) => (resp.out = {n})
            /\ (n.owner_id = u.id) => (resp.status = 200)

\* another user has just read a public note that is not theirs
C2_Witness ==
    /\ resp.op = "get_note"
    /\ resp.status = 200
    /\ \E h \in held, n \in resp.out, u \in users :
          /\ resp.cred = h.tok /\ u.username = h.user
          /\ n.owner_id # u.id /\ n.is_public /\ n.updated_at > n.created_at

\* the caller of a request does not own note nid: no token, or some other user's
NotOwner(cred, nid) ==
    ~ \E h \in held, n \in notes, u \in users :
          /\ h.tok = cred /\ u.username = h.user
          /\ n.id = nid /\ n.owner_id = u.id

MutatingOps == {"update_note", "delete_note", "share_note"}

\* C3: an update_note, delete_note or share_note by a caller who is not the
\* note's owner is rejected and leaves every note as it was (title, content,
\* is_public, updated_at, existence).
C3_NonOwnerWriteChangesNothing ==
    [][(resp'.op \in MutatingOps /\ NotOwner(resp'.cred, resp'.nid)) =>
          (notes' = notes /\ resp'.status # 200)]_vars

\* a logged-in user who is not the owner has just been refused on an existing note
C3_Witness ==
    /\ resp.op \in MutatingOps
    /\ resp.status = 404
    /\ \E h \in held, n \in notes :
          /\ h.tok = resp.cred /\ n.id = resp.nid
          /\ \E u \in users : u.username = h.user /\ u.id # n.owner_id

\* C12: a note is private when create_note has made it, an anonymous read of a
\* note that was never shared fails, and is_public changes only in a successful
\* share_note by the note's owner.
C12_PrivateUntilOwnerShares ==
    [][/\ \A n \in notes' :
             (\A m \in notes : m.id # n.id) =>
                 (~n.is_public /\ resp'.op = "create_note" /\ resp'.status = 200)
       /\ \A m \in notes, n \in notes' :
             (m.id = n.id /\ m.is_public # n.is_public) =>
                 /\ resp'.op = "share_note" /\ resp'.status = 200 /\ resp'.nid = n.id
                 /\ ~NotOwner(resp'.cred, n.id)
       /\ (resp'.op = "get_shared_note" /\ resp'.nid \notin shared') =>
             resp'.status = 404]_vars

\* an anonymous read of a note that exists and was never shared has just failed
C12_Witness ==
    /\ resp.op = "get_shared_note"
    /\ resp.status = 404
    /\ resp.nid \notin shared
    /\ \E n \in notes : n.id = resp.nid /\ ~n.is_public

\* C13: share_note by the owner with the value is_public already has succeeds,
\* leaves is_public, title and content as they were, and sets updated_at to the
\* time of the call.
C13_ShareIdempotent ==
    [][\A m \in notes :
          (/\ resp'.op = "share_note"
           /\ resp'.nid = m.id
           /\ resp'.req = ShareNoteRequest(m.is_public)
           /\ ~NotOwner(resp'.cred, m.id)) =>
              /\ resp'.status = 200
              /\ notes' = (notes \ {m}) \cup {[m EXCEPT !.updated_at = now]}
              /\ \A r \in resp'.out : r.is_public = m.is_public]_vars

\* the owner has just shared a note with the value it had, at a later time than
\* its last change
C13_Witness ==
    /\ resp.op = "share_note"
    /\ resp.status = 200
    /\ \E o \in resp.old, n \in notes :
          /\ n.id = o.id /\ n.is_public = o.is_public /\ n.updated_at > o.updated_at

\* C14: the owner's successful share(false) leaves the note private, and while
\* a note that was public is private, every anonymous read of it fails and the
\* public listing does not contain it.
C14_RevokedNoteUnreadable ==
    [][/\ \A m \in notes :
             (/\ resp'.op = "share_note"
              /\ resp'.nid = m.id
              /\ resp'.req = ShareNoteRequest(FALSE)
              /\ ~NotOwner(resp'.cred, m.id)) =>
                 /\ resp'.status = 200
                 /\ \A n \in notes' : n.id = m.id => ~n.is_public
       /\ \A n \in notes :
             (n.id \in shared /\ ~n.is_public) =>
                 /\ (resp'.op = "get_shared_note" /\ resp'.nid = n.id) =>
                       (resp'.status = 404 /\ resp'.out = {})
                 /\ (resp'.op = "get_public_notes") =>
                       \A i \in DOMAIN resp'.list : resp'.list[i].id # n.id]_vars

\* an anonymous read of a note that was public and is private again has just failed
C14_Witness ==
    /\ resp.op = "get_shared_note"
    /\ resp.status = 404
    /\ resp.nid \in shared
    /\ \E n \in notes : n.id = resp.nid /\ ~n.is_public

\* C15: a successful update_note or share_note sets the note's updated_at to
\* the time of the call; no step lowers a note's updated_at or changes its
\* created_at.
C15_UpdatedAtMonotone ==
    [][/\ \A m \in notes, n \in notes' :
             m.id = n.id =>
                 (n.updated_at >= m.updated_at /\ n.created_at = m.created_at)
       /\ (resp'.op \in {"update_note", "share_note"} /\ resp'.status = 200) =>
             \E n \in notes' : n.id = resp'.nid /\ n.updated_at = now']_vars

\* an update has just moved a note's updated_at past its created_at
C15_Witness ==
    /\ resp.op = "update_note"
    /\ resp.status = 200
    /\ \E o \in resp.old, n \in notes :
          /\ n.id = o.id /\ n.updated_at > o.updated_at
          /\ n.updated_at = now /\ n.created_at = o.created_at

\* C16: create_note gives the note the caller's id as owner_id, and no step
\* changes the owner_id of a note.
C16_OwnerFixed ==
    [][/\ \A m \in notes, n \in notes' : m.id = n.id => n.owner_id = m.owner_id
       /\ \A n \in notes' :
             (\A m \in notes : m.id # n.id) =>
                 \E h \in held, u \in users :
                    /\ h.tok = resp'.cred /\ u.username = h.user
                    /\ n.owner_id = u.id]_vars

\* with two users registered, the owner has just changed a note, which is still theirs
C16_Witness ==
    /\ resp.op \in {"update_note", "share_note"}
    /\ resp.status = 200
    /\ Cardinality(users) = 2
    /\ \E o \in resp.old, n \in notes, h \in held, u \in users :
          /\ n.id = o.id /\ n # o /\ n.owner_id = o.owner_id
          /\ h.tok = resp.cred /\ u.username = h.user /\ u.id = n.owner_id

\* C24: on get_note, update_note, delete_note and share_note, a logged-in
\* caller gets for another user's private note the 404 "Note not found" that a
\* note id nobody has gets.
C24_NoAccessLooksLikeNotFound ==
    \A h \in held, u \in users, n \in notes :
        (/\ resp.op \in {"get_note", "update_note", "delete_note", "share_note"}
         /\ resp.cred = h.tok /\ u.username = h.user
         /\ resp.nid = n.id /\ n.owner_id # u.id /\ ~n.is_public) =>
            (resp.status = 404 /\ resp.detail = "Note not found")

\* C26: a token login issued to a user, when get_current_user accepts it,
\* resolves to that user, with the id the user had at the login, whatever was
\* registered and done to notes since.
C26_TokenResolvesToItsUser ==
    \A h \in held :
        (resp.status = 200 /\ resp.cred = h.tok) =>
            /\ resp.op = "me" =>
                  \E u \in users :
                     /\ u.id = h.uid /\ u.username = h.user
                     /\ resp.out = {UserResponse(u)}
            /\ resp.op = "create_note" => \A n \in resp.out : n.owner_id = h.uid
            /\ resp.op = "get_user_notes" => \A n \in resp.out : n.owner_id = h.uid

\* with a second user registered and a note made, the first user's token has
\* just resolved to the first user
C26_Witness ==
    /\ resp.op = "me"
    /\ resp.status = 200
    /\ Cardinality(users) = 2
    /\ notes # {}
    /\ \E h \in held, r \in resp.out :
          resp.cred = h.tok /\ r.id = h.uid /\ r.username = h.user /\ r.id = 1

\* ------------------------------------------------------------ SpecForge
AuthenticatedOps ==
    {"me", "get_user_notes", "create_note", "get_note", "update_note", "delete_note",
     "share_note"}

\* C19: a bearer token that is not one the service issued (a payload altered
\* after issuance, or a signature made with another secret) is refused with
\* 401 by every endpoint that needs an identity, and the request changes nothing.
C19_ForgedTokenRejected ==
    [][(/\ resp'.op \in AuthenticatedOps
        /\ resp'.cred \in ForgedCreds) =>
           /\ resp'.status = 401
           /\ resp'.detail = "Could not validate credentials"
           /\ resp'.out = {}
           /\ UNCHANGED <<users, notes, note_seq, held, given, shared>>]_vars

\* a token altered to name a note's owner has just been refused on that note
C19_Witness ==
    /\ resp.op \in MutatingOps
    /\ resp.status = 401
    /\ resp.cred \in ForgedCreds
    /\ \E u \in users, n \in notes, h \in held :
          /\ u.username = resp.cred.sub /\ n.owner_id = u.id /\ n.id = resp.nid
          /\ h.user # u.username /\ resp.cred = Tamper(h.tok)

\* C22: a request whose bearer token fails verification is served as an
\* anonymous one: get_note on a public note with such a token succeeds.
C22_FailedTokenIsAnonymous ==
    \A n \in notes :
        (/\ resp.op = "get_note"
         /\ resp.nid = n.id
         /\ n.is_public
         /\ resp.cred \in ForgedCreds) => resp.status = 200

\* C23: a correctly signed, unexpired token whose subject is no stored user is
\* refused with 401 by every endpoint that needs an identity, and the request
\* changes no user and no note.
C23_UnknownSubjectRejected ==
    [][(/\ resp'.op \in AuthenticatedOps
        /\ resp'.cred \in StaleCreds
        /\ jwt_decode(resp'.cred, SECRET_KEY, now) = "ok"
        /\ \A u \in users : u.username # resp'.cred.sub) =>
           /\ resp'.status = 401
           /\ resp'.detail = "Could not validate credentials"
           /\ resp'.out = {}
           /\ UNCHANGED <<users, notes, note_seq, held, given, shared, deleted>>]_vars

\* a valid token of a user who is gone has just been refused on an existing note
C23_Witness ==
    /\ resp.op \in MutatingOps
    /\ resp.status = 401
    /\ resp.cred \in StaleCreds
    /\ jwt_decode(resp.cred, SECRET_KEY, now) = "ok"
    /\ users # {}
    /\ \A u \in users : u.username # resp.cred.sub
    /\ \E n \in notes : n.id = resp.nid

\* ------------------------------------------------------------ SpecList
\* C18: get_public_notes returns exactly the notes that are public when it is
\* called, of every owner, each once and with its owner's username, in
\* descending order of updated_at; no private note is in the result.
C18_PublicListing ==
    resp.op = "get_public_notes" =>
        /\ resp.status = 200
        /\ {resp.list[i].id : i \in DOMAIN resp.list} =
              {n.id : n \in {m \in notes : m.is_public}}
        /\ Len(resp.list) = Cardinality({m \in notes : m.is_public})
        /\ \A i \in DOMAIN resp.list :
              \E n \in notes, u \in users :
                 /\ n.is_public /\ u.id = n.owner_id
                 /\ resp.list[i] =
                       [id |-> n.id, title |-> n.title, content |-> n.content,
                        created_at |-> n.created_at, updated_at |-> n.updated_at,
                        is_public |-> TRUE, owner_id |-> n.owner_id,
                        owner_username |-> u.username]
        /\ \A i \in DOMAIN resp.list, j \in DOMAIN resp.list :
              i < j => resp.list[i].updated_at >= resp.list[j].updated_at

\* the listing has just returned two notes of two owners, the one changed last first
C18_Witness ==
    /\ resp.op = "get_public_notes"
    /\ Len(resp.list) = 2
    /\ resp.list[1].updated_at > resp.list[2].updated_at
    /\ resp.list[1].id < resp.list[2].id
    /\ resp.list[1].owner_username # resp.list[2].owner_username

\* ------------------------------------------------------------ SpecAuth: tokens in time
\* the instant, in ticks, at which the whole second sec begins
SecondStart(sec) == sec * TicksPerSecond

\* C4: a token issued at T with expiry E verifies at every now with
\* T <= now < E, and is refused at every now >= E, the instant E included.
C4_VerifyWindow ==
    \A h \in held :
        (resp.op = "me" /\ resp.cred = h.tok) =>
            /\ (h.iat <= now /\ now < SecondStart(h.tok.exp)) => resp.status = 200
            /\ (now >= SecondStart(h.tok.exp)) => resp.status = 401

\* C5: a token from a successful login carries an expiry 30 minutes after its
\* issuance; on an authenticated endpoint it is accepted up to 29 minutes after
\* the login and refused from 31 minutes after it.
C5_LoginTokenThirtyMinutes ==
    \A h \in held :
        /\ h.tok.exp = timegm(h.iat + 30 * 60 * TicksPerSecond)
        /\ h.tok.exp = timegm(h.iat) + 30 * 60
        /\ (resp.op = "me" /\ resp.cred = h.tok) =>
              /\ (now - h.iat <= 29 * 60 * TicksPerSecond) => resp.status = 200
              /\ (now - h.iat >= 31 * 60 * TicksPerSecond) => resp.status = 401

\* a login token has just been refused 31 minutes after its login
C5_Witness ==
    /\ resp.op = "me"
    /\ resp.status = 401
    /\ \E h \in held :
          resp.cred = h.tok /\ now - h.iat = 31 * 60 * TicksPerSecond

\* ------------------------------------------------------------ SpecAuth: registration
\* C8: registering a username that some user already has, letter for letter,
\* fails with 400 "Username already registered" and leaves the users as they
\* were; registering a username and an email no user has succeeds and adds
\* exactly that user, also when the username differs from an existing one only
\* in letter case.
C8_DuplicateUsername ==
    [][\A u \in Usernames, e \in Emails, pw \in RegPasswords, s \in Salts :
          register(u, e, pw, s) =>
              /\ (\E x \in users : x.username = u) =>
                    /\ resp'.status = 400
                    /\ resp'.detail = "Username already registered"
                    /\ users' = users
              /\ (\A x \in users : x.username # u /\ x.email # e) =>
                    /\ resp'.status = 200
                    /\ \E x \in users' \ users :
                          /\ x.username = u /\ x.email = e
                          /\ users' = users \cup {x}]_vars

\* two users whose names differ only in case are both registered, and a repeat
\* of one of the names has just been refused
C8_Witness ==
    /\ resp.op = "register"
    /\ resp.status = 400
    /\ \E x \in users, y \in users :
          /\ x.username # y.username
          /\ Lower(x.username) = Lower(y.username)
          /\ resp.req = x.username

\* C9: registering a new username with an email some user already has is
\* refused like a duplicate username (400) and creates no user.
C9_DuplicateEmailRejected ==
    [][\A u \in Usernames, e \in Emails, pw \in RegPasswords, s \in Salts :
          (/\ register(u, e, pw, s)
           /\ \A x \in users : x.username # u
           /\ \E x \in users : x.email = e) =>
              (resp'.status = 400 /\ users' = users)]_vars

\* C25: no response carries internal detail: whatever fails, a storage
\* exception at commit included, the body has a status and a message and no
\* exception text.
C25_NoInternalDetail == resp.error = ""

\* ------------------------------------------------------------ SpecLogin
\* C11: login(u, p) returns a token if and only if a user u is registered and
\* p is exactly the password u was registered with; a different password or an
\* unregistered username never yields a token.
C11_LoginIffRegisteredPassword ==
    [][\A u \in Usernames, p \in Passwords \cup LongPasswords :
          login(u, p) =>
              ((resp'.status = 200) <=>
                  (\E g \in given : g.username = u /\ g.password = p))]_vars

\* C17: a login that fails gets the same response whether the username is
\* unregistered or the password is wrong: status 401, "Incorrect username or
\* password", no body, nothing else that tells the two apart.
C17_LoginFailureUniform ==
    [][\A u \in Usernames, p \in Passwords \cup LongPasswords :
          (login(u, p) /\ resp'.status # 200) =>
              /\ resp'.status = 401
              /\ resp'.detail = "Incorrect username or password"
              /\ [resp' EXCEPT !.req = ""] =
                    [NoResp EXCEPT !.op = "login", !.status = 401,
                                   !.detail = "Incorrect username or password"]
              /\ held' = held]_vars

\* a login with a registered username and a wrong password has just failed
C17_Witness ==
    /\ resp.op = "login"
    /\ resp.status = 401
    /\ \E usr \in users : usr.username = resp.req
    /\ \E u \in Usernames : \A usr \in users : usr.username # u

\* ------------------------------------------------------------ SpecToken
\* C6: a token issued with no expires_delta expires 30 minutes after its issuance.
C6_DefaultTtlThirtyMinutes ==
    \A h \in held :
        h.delta = NoDelta => h.tok.exp = timegm(h.iat + 30 * 60 * TicksPerSecond)

\* C7: whatever expires_delta is (absent, zero, positive, negative), the
\* token's expiry is strictly later than its issuance.
C7_ExpiryAfterIssuance ==
    \A h \in held : SecondStart(h.tok.exp) > h.iat

\* ------------------------------------------------------------ SpecConc
\* C10: at every moment, whatever the interleaving of register requests, no
\* two stored users share a username and no two share an email.
C10_UsersUnique ==
    \A x \in users, y \in users :
        x # y => (x.username # y.username /\ x.email # y.email /\ x.id # y.id)

\* a request passed the username check, another committed that username first,
\* and the first one's commit has just been refused
C10_Witness ==
    /\ resp.op = "register"
    /\ resp.status \in {500, 503}
    /\ \E x \in users : x.username = resp.req

\* C20: when register requests for one username race, one user is created and
\* the request that loses is answered with 400 like any duplicate username,
\* not with a storage error or a 500.
C20_RaceLoserGetsDuplicate ==
    /\ \A x \in users, y \in users : x.username = y.username => x = y
    /\ (/\ resp.op = "register"
        /\ resp.status # 200
        /\ \E x \in users : x.username = resp.req) =>
           (resp.status = 400 /\ resp.error = "")

\* ------------------------------------------------------------ SpecRace
\* C21: when update_note and share_note requests on one note interleave, each
\* reading the clock before its own commit, no commit leaves the note with an
\* earlier updated_at than it had.
C21_UpdatedAtMonotoneUnderRace ==
    [][\A m \in notes, n \in notes' :
          m.id = n.id => n.updated_at >= m.updated_at]_vars

\* ------------------------------------------------------------ SpecDelete
\* C27: once the owner's delete_note has succeeded on an id, every later
\* get_note, get_shared_note, update_note, share_note and delete_note on that
\* id reports not found and neither listing shows a note of that id, even if
\* the note was public; the delete leaves every other note as it was.
C27_DeletedStaysGone ==
    [][/\ \A i \in deleted :
             /\ (/\ resp'.op \in {"get_note", "update_note", "share_note", "delete_note"}
                 /\ resp'.cred \in HeldTokens
                 /\ resp'.nid = i) => resp'.status = 404
             /\ (resp'.op = "get_shared_note" /\ resp'.nid = i) => resp'.status = 404
             /\ resp'.op = "get_public_notes" =>
                   \A k \in 1..Len(resp'.list) : resp'.list[k].id # i
             /\ resp'.op = "get_user_notes" => \A n \in resp'.out : n.id # i
       /\ (resp'.op = "delete_note" /\ resp'.status = 200) =>
             notes' = {n \in notes : n.id # resp'.nid}
      ]_vars

====
